---- MODULE Spec2Model ----
(***************************************************************************)
(* Model of the Tiki product pipeline: scraper.py (TikiScraper),           *)
(* database_manager.py (DatabaseManager) and main.py (run_pipeline).       *)
(*                                                                         *)
(* Decoded JSON values are tagged tuples:                                  *)
(*   <<"scalar", v>>            a JSON scalar, v one of the strings below  *)
(*   <<"list",  <<n1, ...>>>>   a JSON array                               *)
(*   <<"dict",  <<<<k1, n1>>, ...>>>>  a JSON object, keys distinct, in    *)
(*                              iteration (insertion) order                *)
(***************************************************************************)
EXTENDS Integers, Sequences, FiniteSets, TLC

VARIABLES
    mode,        \* which entry point this behaviour exercises
    data_blob,   \* argument of find_parent_recursively / the decoded payload
    target_key,  \* argument of find_parent_recursively
    found,       \* its return value, Pending before the call
    extracted,   \* return value of _get_data_and_ids_from_next_data, Pending before
    \* the SQL Server database
    BrandDetails,         \* committed rows of table BrandDetails, in insertion order
    TikiProductsHistory,  \* committed rows of table TikiProductsHistory
    \* the upsert_data call in progress (or the last one)
    brands_df,            \* argument brands_df: a sequence of brand records
    history_df,           \* argument history_df: a sequence of product records
    existing_brands_df,         \* local of line 113: the brands stored before
    new_brands_to_insert,       \* local of line 115
    final_fact_data_to_insert,  \* local of line 147
    upsert_outcome,       \* how the call went, "idle" when no call has been made
    \* run_pipeline and TikiScraper.scrape
    pc,            \* where the run is: "start", "listing", "enrich", "scraped",
                   \* "done" (returned normally), "uncaught" (ended by an exception)
    failed_phase,  \* the phase whose exception ended the run, "none" otherwise
    clock,         \* the calendar date now
    today,         \* self.today
    driver,        \* the Selenium session: "none", "open", "quit"
    quit_count,    \* calls of driver.quit
    requests_made, \* requests.get calls of the enrichment phase
    page_num,      \* loop variable of line 144
    product_items, \* the entries of the current page still to parse (line 152)
    scraped_data_from_list_page,
    all_product_links,
    link_index,    \* 1-based position of the enrichment loop (i + 1 of line 187)
    seller_id,     \* local of line 195, Pending while unbound
    brand_json,    \* local of line 197, Pending while unbound
    final_products_history,
    final_brands_details  \* dict: a sequence of <<seller_id, record>>, insertion order

treeVars == <<data_blob, target_key, found, extracted>>
dbVars == <<BrandDetails, TikiProductsHistory>>
upsertVars == <<brands_df, history_df, existing_brands_df, new_brands_to_insert,
                final_fact_data_to_insert, upsert_outcome>>
scrapeVars == <<pc, failed_phase, clock, today, driver, quit_count, requests_made,
                page_num, product_items, scraped_data_from_list_page,
                all_product_links, link_index, seller_id, brand_json,
                final_products_history, final_brands_details>>
vars == <<mode, treeVars, dbVars, upsertVars, scrapeVars>>

-----------------------------------------------------------------------------
(* Bounds *)
MaxNodes == 6          \* nodes of a generated JSON tree
MaxBatch == 2          \* rows of a brands_df or history_df handed to upsert_data
MaxProducts == 2       \* product entries the listing pages of one run hold

Keys == {"k", "x"}     \* dictionary keys of the generated trees
ScalarValues == {"0"}  \* scalar leaves of the generated trees
\* the leaves of the generated trees: a scalar and the empty dict
Leaves == {<<"scalar", v>> : v \in ScalarValues} \cup {<<"dict", <<>>>>}

-----------------------------------------------------------------------------
(* JSON values *)
\* Scalars are named by their JSON text; Python's None is the decoded null.
None == <<"scalar", "null">>
Pending == <<"pending">>
\* the scalars Python treats as false: None, False, 0 and the empty string
FalsyScalars == {"null", "false", "0", "\"\""}

Scalar(v) == <<"scalar", v>>
List(items) == <<"list", items>>
Dict(kv) == <<"dict", kv>>

IsDict(n) == n[1] = "dict"
IsList(n) == n[1] = "list"
IsScalar(n) == n[1] = "scalar"

DictKeys(d) == {d[2][i][1] : i \in 1..Len(d[2])}
HasKey(d, k) == k \in DictKeys(d)
\* dict.values(): the values in iteration order
DictValues(d) == [i \in 1..Len(d[2]) |-> d[2][i][2]]
\* d[k] for a key the dict has
DictItem(d, k) == d[2][CHOOSE i \in 1..Len(d[2]) : d[2][i][1] = k][2]
\* d.get(k, default)
DictGet(d, k, default) == IF HasKey(d, k) THEN DictItem(d, k) ELSE default
\* bool(n)
Truthy(n) == IF IsScalar(n) THEN n[2] \notin FalsyScalars ELSE Len(n[2]) > 0

\* key sequences without repetition: the key orders a dict can have
KeySeqs == UNION {{s \in [1..m -> Keys] : \A i, j \in 1..m : s[i] = s[j] => i = j}
                  : m \in 0..Cardinality(Keys)}

\* all JSON values with exactly n nodes, given the forests of n - 1 nodes
TreesFrom(n, forests) ==
    IF n = 1
    THEN Leaves
    ELSE {List(f) : f \in forests}
         \cup {Dict([i \in 1..Len(p[1]) |-> <<p[2][i], p[1][i]>>])
                : p \in {q \in forests \X KeySeqs : Len(q[1]) = Len(q[2])}}
\* all sequences of JSON values with n nodes in total
RECURSIVE ForestsFirst(_, _, _)
ForestsOfSize[n \in 0..MaxNodes] ==
    IF n = 0 THEN {<<>>} ELSE ForestsFirst(n, n, ForestsOfSize)
\* those whose first value has at most s nodes
ForestsFirst(n, s, F) ==
    IF s = 0 THEN {}
    ELSE {<<t>> \o f : t \in TreesFrom(s, F[s - 1]), f \in F[n - s]}
         \cup ForestsFirst(n, s - 1, F)
TreesOfSize(n) == TreesFrom(n, ForestsOfSize[n - 1])
RECURSIVE TreesUpTo(_)
TreesUpTo(n) == IF n = 0 THEN {} ELSE TreesOfSize(n) \cup TreesUpTo(n - 1)

-----------------------------------------------------------------------------
(* TikiScraper.find_parent_recursively *)
\* a search that gives up after the first child of every container
RECURSIVE find_first_child_only(_, _)
find_first_child_only(blob, key) ==
    IF IsDict(blob) /\ HasKey(blob, key) THEN blob
    ELSE IF IsScalar(blob) \/ Len(blob[2]) = 0 THEN None
    ELSE find_first_child_only(IF IsDict(blob) THEN blob[2][1][2] ELSE blob[2][1], key)

RECURSIVE find_parent_recursively(_, _), find_in_items(_, _, _)
find_parent_recursively(blob, key) ==
    IF IsDict(blob)
    THEN IF HasKey(blob, key) THEN blob
         ELSE find_in_items(DictValues(blob), key, 1)
    ELSE IF IsList(blob) THEN find_in_items(blob[2], key, 1)
    ELSE None
\* the two for-loops: return the first result that is not None
find_in_items(items, key, i) ==
    IF i > Len(items) THEN None
    ELSE LET f == find_parent_recursively(items[i], key)
         IN IF f # None THEN f ELSE find_in_items(items, key, i + 1)

\* The dicts of a JSON value in depth-first pre-order: a dict before its
\* values, dict values in iteration order, list elements in index order.
RECURSIVE PreOrderDicts(_), PreOrderOfItems(_)
PreOrderDicts(n) ==
    IF IsDict(n) THEN <<n>> \o PreOrderOfItems(DictValues(n))
    ELSE IF IsList(n) THEN PreOrderOfItems(n[2])
    ELSE <<>>
PreOrderOfItems(items) ==
    IF items = <<>> THEN <<>>
    ELSE PreOrderDicts(Head(items)) \o PreOrderOfItems(Tail(items))
\* the dicts of n that have key as one of their own keys, in pre-order
Owners(n, key) == SelectSeq(PreOrderDicts(n), LAMBDA d : HasKey(d, key))

(* DatabaseManager: the tables of _setup_database_schema and upsert_data *)

\* merge(how='left') leaves NaN where no stored brand has the name
NaN == -1

\* a table created without the UNIQUE on BrandName
NoBrandNameConstraint(table, name) == TRUE
\* UNIQUE (BrandName) of table BrandDetails
BrandNameIsUnique(table, name) == \A i \in 1..Len(table) : table[i].BrandName # name
\* constraint UQ_Product_History UNIQUE (Name, BrandID, ScrapedDate)
HistoryKey(row) == <<row.Name, row.BrandID, row.ScrapedDate>>
HistoryKeyIsUnique(table, row) ==
    \A i \in 1..Len(table) : HistoryKey(table[i]) # HistoryKey(row)

\* BrandID INT IDENTITY(1,1): the next unused positive integer
NextBrandID(table) == Len(table) + 1

\* cursor.executemany of an INSERT: the rows go in one by one, the first row
\* that breaks a UNIQUE constraint raises IntegrityError
RECURSIVE executemany_brands(_, _), executemany_history(_, _)
executemany_brands(table, rows) ==
    IF rows = <<>> THEN [table |-> table, error |-> FALSE]
    ELSE IF ~BrandNameIsUnique(table, Head(rows).BrandName)
    THEN [table |-> table, error |-> TRUE]
    ELSE executemany_brands(
             Append(table, [BrandID |-> NextBrandID(table),
                            BrandName |-> Head(rows).BrandName,
                            BrandLink |-> Head(rows).BrandLink]),
             Tail(rows))
executemany_history(table, rows) ==
    IF rows = <<>> THEN [table |-> table, error |-> FALSE]
    ELSE IF ~HistoryKeyIsUnique(table, Head(rows))
    THEN [table |-> table, error |-> TRUE]
    ELSE executemany_history(Append(table, Head(rows)), Tail(rows))

\* the rows of seq at the indices of keep, from index i on, in order
RECURSIVE RowsAt(_, _, _)
RowsAt(seq, keep, i) ==
    IF i > Len(seq) THEN <<>>
    ELSE (IF i \in keep THEN <<seq[i]>> ELSE <<>>) \o RowsAt(seq, keep, i + 1)

\* a selection that forgets the indicator filter
select_all_brands(brands, existing) == brands
\* lines 114-115: the left merge on BrandName with indicator, then the rows
\* marked left_only
left_only(brands, existing) ==
    RowsAt(brands,
           {i \in 1..Len(brands) : \A j \in 1..Len(existing) :
                                      existing[j].BrandName # brands[i].BrandName},
           1)

\* line 138: the left merge of history_df with the stored brands on BrandName
BrandIDOf(all_brands, name) ==
    IF \E j \in 1..Len(all_brands) : all_brands[j].BrandName = name
    THEN all_brands[CHOOSE j \in 1..Len(all_brands) : all_brands[j].BrandName = name].BrandID
    ELSE NaN
history_with_brand_id(history, all_brands) ==
    [i \in 1..Len(history) |->
        [Name |-> history[i].Name, Price |-> history[i].Price,
         ScrapedDate |-> history[i].ScrapedDate,
         BrandID |-> BrandIDOf(all_brands, history[i].BrandName)]]
\* drop_duplicates with keep='last'
drop_duplicates_keep_last(rows) ==
    RowsAt(rows,
           {i \in 1..Len(rows) :
               \A j \in (i + 1)..Len(rows) : HistoryKey(rows[j]) # HistoryKey(rows[i])},
           1)
\* line 141: drop_duplicates(subset=[Name, BrandID, ScrapedDate], keep='first');
\* NaN equals NaN there
drop_duplicates(rows) ==
    RowsAt(rows,
           {i \in 1..Len(rows) :
               \A j \in 1..(i - 1) : HistoryKey(rows[j]) # HistoryKey(rows[i])},
           1)
\* line 143: dropna(subset=['BrandID'])
dropna(rows) == RowsAt(rows, {i \in 1..Len(rows) : rows[i].BrandID # NaN}, 1)
\* lines 137-147
final_fact_data(history, all_brands) ==
    dropna(drop_duplicates(history_with_brand_id(history, all_brands)))

\* lines 160-164: except pyodbc.IntegrityError, then except Exception
Caught(exc) == exc = "IntegrityError" \/ exc \in {"KeyError", "Error"}
\* how a call that raised exc inside the try ends
EndedBy(exc, outcome) == IF Caught(exc) THEN outcome ELSE "raised"

\* upsert_data(brands_df, history_df) against the tables brand_table and
\* history_table: the tables it leaves, its locals, and how it ended
upsert_data(brand_table, history_table, brands, history, connect_ok) ==
    LET result(brand_rows, history_rows, existing, selected, submitted, outcome) ==
            [BrandDetails |-> brand_rows, TikiProductsHistory |-> history_rows,
             existing_brands_df |-> existing,
             new_brands_to_insert |-> selected,
             final_fact_data_to_insert |-> submitted, outcome |-> outcome]
    IN
    IF history = <<>>                                                  \* line 103
    THEN result(brand_table, history_table, <<>>, <<>>, <<>>, "no_products")
    ELSE IF ~connect_ok                                                \* lines 108, 163
    THEN result(brand_table, history_table, <<>>, <<>>, <<>>,
                EndedBy("Error", "connect_failed"))
    ELSE IF brands = <<>>
    THEN \* pd.DataFrame([]) has no BrandName column: the merge of line 114
         \* raises KeyError, caught at line 163
         result(brand_table, history_table, brand_table, <<>>, <<>>,
                EndedBy("KeyError", "key_error"))
    ELSE
    LET selected == left_only(brands, brand_table)
        step1 == executemany_brands(brand_table, selected)             \* line 129
    IN
    IF step1.error
    THEN \* IntegrityError: line 162 rolls the uncommitted brand rows back
         result(brand_table, history_table, brand_table, selected, <<>>,
                EndedBy("IntegrityError", "brand_integrity_error"))
    ELSE
    LET all_brands == step1.table                                      \* lines 130, 137
        submitted == final_fact_data(history, all_brands)
        step2 == executemany_history(history_table, submitted)         \* line 154
    IN
    IF step2.error
    THEN \* IntegrityError: line 162 rolls the uncommitted history rows back;
         \* the brands were committed at line 130
         result(all_brands, history_table, brand_table, selected, submitted,
                EndedBy("IntegrityError", "history_integrity_error"))
    ELSE result(all_brands, step2.table, brand_table, selected, submitted, "ok")

\* no database, no call
DbIdle ==
    /\ BrandDetails = <<>>
    /\ TikiProductsHistory = <<>>
    /\ brands_df = <<>>
    /\ history_df = <<>>
    /\ existing_brands_df = <<>>
    /\ new_brands_to_insert = <<>>
    /\ final_fact_data_to_insert = <<>>
    /\ upsert_outcome = "idle"

\* no run of the pipeline
NoRun ==
    /\ pc = "start"
    /\ failed_phase = "none"
    /\ clock = "d1"
    /\ today = "d1"
    /\ driver = "none"
    /\ quit_count = 0
    /\ requests_made = 0
    /\ page_num = 1
    /\ product_items = <<>>
    /\ scraped_data_from_list_page = <<>>
    /\ all_product_links = <<>>
    /\ link_index = 1
    /\ seller_id = Pending
    /\ brand_json = Pending
    /\ final_products_history = <<>>
    /\ final_brands_details = <<>>

\* Inputs of upsert_data
BrandNames == {"Acme", "Bolt"}
ProductNames == {"tv"}
Prices == {1, 2}
Dates == {"d1"}
\* two records share the name Acme and differ in their link
BrandRecords == {[BrandName |-> "Acme", BrandLink |-> "u1"],
                 [BrandName |-> "Acme", BrandLink |-> "u2"],
                 [BrandName |-> "Bolt", BrandLink |-> "u1"]}
ProductRecords == [Name : ProductNames, Price : Prices, ScrapedDate : Dates,
                   BrandName : BrandNames]
SeqsUpTo(S, n) == UNION {[1..m -> S] : m \in 0..n}

InitUpsert ==
    /\ mode = "upsert"
    /\ data_blob = None
    /\ target_key = "sellerId"
    /\ found = Pending
    /\ extracted = Pending
    /\ DbIdle
    /\ NoRun

\* a caller hands two frames to upsert_data
UpsertData ==
    /\ mode = "upsert"
    /\ upsert_outcome = "idle"
    /\ \E brands \in SeqsUpTo(BrandRecords, MaxBatch),
          history \in SeqsUpTo(ProductRecords, MaxBatch),
          connect_ok \in BOOLEAN :
          LET r == upsert_data(BrandDetails, TikiProductsHistory, brands, history,
                               connect_ok)
          IN  /\ BrandDetails' = r.BrandDetails
              /\ TikiProductsHistory' = r.TikiProductsHistory
              /\ brands_df' = brands
              /\ history_df' = history
              /\ existing_brands_df' = r.existing_brands_df
              /\ new_brands_to_insert' = r.new_brands_to_insert
              /\ final_fact_data_to_insert' = r.final_fact_data_to_insert
              /\ upsert_outcome' = r.outcome
    /\ UNCHANGED <<mode, treeVars, scrapeVars>>

\* the call has returned: the frames and locals are gone, the tables stay
UpsertReturn ==
    /\ mode = "upsert"
    /\ upsert_outcome # "idle"
    /\ brands_df' = <<>>
    /\ history_df' = <<>>
    /\ existing_brands_df' = <<>>
    /\ new_brands_to_insert' = <<>>
    /\ final_fact_data_to_insert' = <<>>
    /\ upsert_outcome' = "idle"
    /\ UNCHANGED <<mode, treeVars, dbVars, scrapeVars>>

NextUpsert == UpsertData \/ UpsertReturn
SpecUpsert == InitUpsert /\ [][NextUpsert]_vars

-----------------------------------------------------------------------------
(* Specification of find_parent_recursively as a called function *)
InitFind ==
    /\ mode = "find"
    /\ data_blob \in TreesUpTo(MaxNodes)
    /\ target_key \in Keys
    /\ found = Pending
    /\ extracted = Pending
    /\ DbIdle
    /\ NoRun

CallFind ==
    /\ mode = "find"
    /\ found = Pending
    /\ found' = find_parent_recursively(data_blob, target_key)
    /\ UNCHANGED <<mode, data_blob, target_key, extracted, dbVars, upsertVars, scrapeVars>>

NextFind == CallFind
SpecFind == InitFind /\ [][NextFind]_vars

\* C1: find_parent_recursively(tree, k) returns the first dict, in depth-first
\* pre-order, that has k as one of its own keys; it returns None exactly when
\* no dict of the tree has k as a key; the call leaves the tree as it was.
C1_FindReturnsFirstOwner ==
    /\ [](found # Pending =>
            /\ found = (IF Owners(data_blob, target_key) = <<>> THEN None
                        ELSE Owners(data_blob, target_key)[1])
            /\ (found = None <=> Owners(data_blob, target_key) = <<>>))
    /\ [][data_blob' = data_blob]_vars

\* a call where depth-first and breadth-first order disagree: the owner nested
\* deeper in the first element is returned, not the shallower second element
C1_Witness ==
    /\ data_blob = List(<<List(<<Dict(<<(<<"k", Scalar("0")>>)>>)>>),
                          Dict(<<(<<"k", Dict(<<>>)>>)>>)>>)
    /\ target_key = "k"
    /\ found = Dict(<<(<<"k", Scalar("0")>>)>>)

-----------------------------------------------------------------------------
(* TikiScraper._get_data_and_ids_from_next_data, from the decoded payload on *)

\* the (None, None) every failure path returns
NoData == <<None, None>>

\* the ids dict of lines 84-89
Ids(product_data, quantity_sold) ==
    [product_id |-> DictGet(product_data, "productId", None),
     spid |-> DictGet(product_data, "spid", None),
     seller_id |-> DictGet(product_data, "sellerId", None),
     quantity_sold |-> quantity_sold]

\* a variant that reads quantity_sold from the sellerId block
ids_from_product_block(json_data) ==
    LET product_data == find_parent_recursively(json_data, "sellerId")
        qs == DictGet(product_data, "quantity_sold", Dict(<<>>))
        ids == Ids(product_data, DictGet(qs, "value", Scalar("0")))
    IN  IF ~Truthy(product_data) \/ ~IsDict(qs) THEN NoData
        ELSE IF ~(Truthy(ids.product_id) /\ Truthy(ids.spid) /\ Truthy(ids.seller_id))
        THEN NoData
        ELSE <<json_data, ids>>

get_data_and_ids_from_next_data(json_data) ==
    LET sold_data == find_parent_recursively(json_data, "quantity_sold")
        product_data == find_parent_recursively(json_data, "sellerId")
    IN  IF ~Truthy(product_data) THEN NoData
        ELSE \* isinstance(product_data, dict) holds: the search returns a dict or None
             LET qs == DictGet(IF Truthy(sold_data) THEN sold_data ELSE Dict(<<>>),
                               "quantity_sold", Dict(<<>>))
             IN  IF ~IsDict(qs)
                 THEN \* qs.get raises AttributeError, caught by the except of line 101
                      NoData
                 ELSE LET ids == Ids(product_data, DictGet(qs, "value", Scalar("0")))
                      IN  IF ~(Truthy(ids.product_id) /\ Truthy(ids.spid)
                               /\ Truthy(ids.seller_id))
                          THEN NoData
                          ELSE <<json_data, ids>>

\* Decoded payloads: up to two blocks under a dict or in a list.  A block is a
\* dict with any of productId, spid, sellerId (falsy, truthy or absent) and an
\* optional quantity_sold entry of any shape.
IdChoices == {Scalar("0"), Scalar("7")}
SoldChoices == {None, Scalar("5"), List(<<Scalar("5")>>), Dict(<<>>),
                Dict(<<(<<"value", Scalar("5")>>)>>),
                Dict(<<(<<"value", None>>)>>)}
Absent == <<"absent">>
\* the dict with the entries of kv whose value is not Absent
DictOf(kv) == Dict(SelectSeq(kv, LAMBDA e : e[2] # Absent))
Blocks ==
    {DictOf(<<(<<"productId", p>>), (<<"spid", s>>), (<<"sellerId", r>>),
              (<<"quantity_sold", q>>)>>)
     : p \in IdChoices \cup {Absent}, s \in IdChoices \cup {Absent},
       r \in IdChoices \cup {Absent}, q \in SoldChoices \cup {Absent}}
\* second blocks, told from the first by their values
OtherBlocks ==
    {Dict(<<(<<"productId", Scalar("9")>>), (<<"spid", Scalar("9")>>),
            (<<"sellerId", Scalar("9")>>)>>),
     Dict(<<(<<"quantity_sold", Dict(<<(<<"value", Scalar("3")>>)>>)>>)>>),
     Dict(<<(<<"quantity_sold", Scalar("3")>>)>>),
     Dict(<<(<<"sellerId", Scalar("9")>>),
            (<<"quantity_sold", Dict(<<(<<"value", Scalar("3")>>)>>)>>)>>)}
Payloads ==
    {Scalar("7"), List(<<>>)}
    \cup {Dict(<<(<<"props", b>>)>>) : b \in Blocks}
    \cup {List(<<b, o>>) : b \in Blocks, o \in OtherBlocks}
    \cup {Dict(<<(<<"a", o>>), (<<"b", b>>)>>) : b \in Blocks, o \in OtherBlocks}

InitExtract ==
    /\ mode = "extract"
    /\ data_blob \in Payloads
    /\ target_key = "sellerId"
    /\ found = Pending
    /\ extracted = Pending
    /\ DbIdle
    /\ NoRun

CallExtract ==
    /\ mode = "extract"
    /\ extracted = Pending
    /\ extracted' = get_data_and_ids_from_next_data(data_blob)
    /\ UNCHANGED <<mode, data_blob, target_key, found, dbVars, upsertVars, scrapeVars>>

NextExtract == CallExtract
SpecExtract == InitExtract /\ [][NextExtract]_vars

\* the first dict of the payload that has key, None when there is none
FirstOwner(json_data, key) ==
    IF Owners(json_data, key) = <<>> THEN None ELSE Owners(json_data, key)[1]
\* the three identifiers are present and truthy in the first sellerId block
SellerBlockComplete(json_data) ==
    /\ Owners(json_data, "sellerId") # <<>>
    /\ \A k \in {"productId", "spid", "sellerId"} :
          /\ HasKey(FirstOwner(json_data, "sellerId"), k)
          /\ Truthy(DictItem(FirstOwner(json_data, "sellerId"), k))

\* C2: extraction succeeds if and only if a dict with key sellerId is found
\* and productId, spid and sellerId are all present and truthy in it,
\* whatever the rest of the payload (the quantity_sold block included) is.
C2_ExtractionSucceedsIffIdsComplete ==
    extracted # Pending =>
        (extracted # NoData <=> SellerBlockComplete(data_blob))

\* the value at quantity_sold.value of a block, Absent when quantity_sold is
\* not a dict or has no key value
SoldValue(block) ==
    IF IsDict(DictItem(block, "quantity_sold"))
       /\ HasKey(DictItem(block, "quantity_sold"), "value")
    THEN DictItem(DictItem(block, "quantity_sold"), "value")
    ELSE Absent
\* the identifiers returned are those of the first sellerId block
IdsOfFirstSellerBlock ==
    /\ extracted[2].product_id = DictItem(FirstOwner(data_blob, "sellerId"), "productId")
    /\ extracted[2].spid = DictItem(FirstOwner(data_blob, "sellerId"), "spid")
    /\ extracted[2].seller_id = DictItem(FirstOwner(data_blob, "sellerId"), "sellerId")

\* C3 as stated: on success the identifiers are those of the first sellerId
\* block and quantity_sold is the quantity_sold.value of the first block with
\* key quantity_sold, or 0 when no block has key quantity_sold.
C3_Original_SoldIsValueOrZeroWhenNoBlock ==
    (extracted # Pending /\ extracted # NoData) =>
        /\ IdsOfFirstSellerBlock
        /\ extracted[2].quantity_sold =
             (IF Owners(data_blob, "quantity_sold") = <<>> THEN Scalar("0")
              ELSE SoldValue(FirstOwner(data_blob, "quantity_sold")))

\* C3 (amended): on success the identifiers are those of the first sellerId
\* block and quantity_sold is the quantity_sold.value of the first block with
\* key quantity_sold, or 0 when no block has key quantity_sold or the
\* quantity_sold dict of that block has no key value.
C3_SoldIsValueOrZero ==
    (extracted # Pending /\ extracted # NoData) =>
        /\ IdsOfFirstSellerBlock
        /\ extracted[2].quantity_sold =
             (IF Owners(data_blob, "quantity_sold") = <<>>
                 \/ SoldValue(FirstOwner(data_blob, "quantity_sold")) = Absent
              THEN Scalar("0")
              ELSE SoldValue(FirstOwner(data_blob, "quantity_sold")))

\* a success where the two blocks are different dicts: the sold count comes
\* from the first quantity_sold block, not from the sellerId block's own entry
C3_Witness ==
    /\ extracted # Pending /\ extracted # NoData
    /\ FirstOwner(data_blob, "quantity_sold") # FirstOwner(data_blob, "sellerId")
    /\ HasKey(FirstOwner(data_blob, "sellerId"), "quantity_sold")
    /\ extracted[2].quantity_sold = Scalar("3")
    /\ extracted[2].seller_id = Scalar("7")

-----------------------------------------------------------------------------
(* Claims about upsert_data *)

NoDuplicateBrandName ==
    \A i, j \in 1..Len(BrandDetails) :
        BrandDetails[i].BrandName = BrandDetails[j].BrandName => i = j
NoDuplicateHistoryKey ==
    \A i, j \in 1..Len(TikiProductsHistory) :
        HistoryKey(TikiProductsHistory[i]) = HistoryKey(TikiProductsHistory[j]) => i = j
StoredHistoryKeys == {HistoryKey(TikiProductsHistory[i]) : i \in 1..Len(TikiProductsHistory)}

\* C4: after any sequence of upsert_data calls BrandDetails holds no two rows
\* with the same BrandName and TikiProductsHistory no two rows with the same
\* (Name, BrandID, ScrapedDate); a uniqueness violation during an insert is
\* rolled back (the table of the failed insert is as before the call) and no
\* exception leaves upsert_data.
RolledBack ==
    /\ (upsert_outcome' = "brand_integrity_error") =>
           (BrandDetails' = BrandDetails /\ TikiProductsHistory' = TikiProductsHistory)
    /\ (upsert_outcome' = "history_integrity_error") =>
           (TikiProductsHistory' = TikiProductsHistory)
C4_NoDuplicateRows ==
    /\ [](NoDuplicateBrandName /\ NoDuplicateHistoryKey /\ upsert_outcome # "raised")
    /\ [][RolledBack]_vars

\* the same batch run again: every submitted row is already stored, the insert
\* is refused and the tables keep their rows
C4_Witness ==
    /\ upsert_outcome = "history_integrity_error"
    /\ Len(final_fact_data_to_insert) = 2
    /\ \A i \in 1..2 : HistoryKey(final_fact_data_to_insert[i]) \in StoredHistoryKeys
    /\ Len(TikiProductsHistory) = 2
    /\ Len(BrandDetails) = 2

\* the call got as far as the selection of line 115
SelectionDone ==
    upsert_outcome \in {"brand_integrity_error", "history_integrity_error", "ok"}
ExistingBrandNames ==
    {existing_brands_df[i].BrandName : i \in 1..Len(existing_brands_df)}

\* C6: a brand record of the batch is selected for insertion if and only if
\* its BrandName is not among the stored brand names; the rows stored before
\* are never changed or removed.
C6_NewBrandsAreTheUnknownNames ==
    /\ [](SelectionDone =>
            new_brands_to_insert =
                SelectSeq(brands_df, LAMBDA b : b.BrandName \notin ExistingBrandNames))
    /\ [][\A i \in 1..Len(BrandDetails) :
             Len(BrandDetails') >= i /\ BrandDetails'[i] = BrandDetails[i]]_vars

\* stored {Acme}, batch [Acme (another link), Bolt]: only Bolt is selected and
\* the stored Acme row keeps its link
C6_Witness ==
    /\ upsert_outcome = "ok"
    /\ brands_df = <<[BrandName |-> "Acme", BrandLink |-> "u2"],
                     [BrandName |-> "Bolt", BrandLink |-> "u1"]>>
    /\ ExistingBrandNames = {"Acme"}
    /\ new_brands_to_insert = <<[BrandName |-> "Bolt", BrandLink |-> "u1"]>>
    /\ BrandDetails[1].BrandName = "Acme" /\ BrandDetails[1].BrandLink = "u1"

\* the call got as far as the preparation of lines 137-147
PreparationDone == upsert_outcome \in {"history_integrity_error", "ok"}
StoredBrandNames == {BrandDetails[i].BrandName : i \in 1..Len(BrandDetails)}
StoredBrandIDs == {BrandDetails[i].BrandID : i \in 1..Len(BrandDetails)}
\* the BrandID stored for a name that is stored
StoredIDOf(name) ==
    (CHOOSE b \in {BrandDetails[i] : i \in 1..Len(BrandDetails)} : b.BrandName = name).BrandID
\* the rows of the batch whose brand is stored, with that brand's BrandID
RECURSIVE ResolvedRows(_)
ResolvedRows(rows) ==
    IF rows = <<>> THEN <<>>
    ELSE (IF Head(rows).BrandName \in StoredBrandNames
          THEN <<[Name |-> Head(rows).Name, Price |-> Head(rows).Price,
                  ScrapedDate |-> Head(rows).ScrapedDate,
                  BrandID |-> StoredIDOf(Head(rows).BrandName)]>>
          ELSE <<>>) \o ResolvedRows(Tail(rows))
\* one row per key, the first in order
RECURSIVE FirstOfEachKey(_, _)
FirstOfEachKey(rows, seen) ==
    IF rows = <<>> THEN <<>>
    ELSE IF HistoryKey(Head(rows)) \in seen THEN FirstOfEachKey(Tail(rows), seen)
    ELSE <<Head(rows)>> \o FirstOfEachKey(Tail(rows), seen \cup {HistoryKey(Head(rows))})

\* C7: the history rows submitted for insertion are exactly the rows of the
\* batch whose BrandName resolves to a stored BrandID, reduced to one row per
\* (Name, BrandID, ScrapedDate), the first in batch order; every submitted
\* row references a stored BrandID.
C7_SubmittedRowsAreResolvedAndDeduplicated ==
    PreparationDone =>
        /\ final_fact_data_to_insert = FirstOfEachKey(ResolvedRows(history_df), {})
        /\ \A i \in 1..Len(final_fact_data_to_insert) :
              final_fact_data_to_insert[i].BrandID \in StoredBrandIDs

\* two rows of the batch share the key and differ in price: the first is kept
C7_Witness ==
    /\ upsert_outcome = "ok"
    /\ Len(history_df) = 2
    /\ history_df[1].BrandName = history_df[2].BrandName
    /\ history_df[1].Price = 2 /\ history_df[2].Price = 1
    /\ Len(final_fact_data_to_insert) = 1
    /\ final_fact_data_to_insert[1].Price = 2
    /\ TikiProductsHistory = final_fact_data_to_insert

\* C8: the new history rows are reconciled against the stored ones by (name,
\* brand, scrapedDate): a row whose triple is already stored is not submitted
\* for insertion, and a row of the same batch whose triple is not stored is
\* persisted.
ReconciledWithStoredHistory ==
    (upsert_outcome' \in {"history_integrity_error", "ok"}) =>
        /\ \A i \in 1..Len(final_fact_data_to_insert') :
              HistoryKey(final_fact_data_to_insert'[i]) \notin StoredHistoryKeys
        /\ \A r \in {[Name |-> history_df'[i].Name, BrandName |-> history_df'[i].BrandName,
                       ScrapedDate |-> history_df'[i].ScrapedDate]
                      : i \in 1..Len(history_df')} :
              (/\ r.BrandName \in {BrandDetails'[j].BrandName : j \in 1..Len(BrandDetails')}
               /\ \A j \in 1..Len(TikiProductsHistory) :
                     \/ TikiProductsHistory[j].Name # r.Name
                     \/ TikiProductsHistory[j].ScrapedDate # r.ScrapedDate
                     \/ \A b \in 1..Len(BrandDetails') :
                           BrandDetails'[b].BrandName = r.BrandName
                               => BrandDetails'[b].BrandID # TikiProductsHistory[j].BrandID)
              => \E j \in 1..Len(TikiProductsHistory') :
                     /\ TikiProductsHistory'[j].Name = r.Name
                     /\ TikiProductsHistory'[j].ScrapedDate = r.ScrapedDate
                     /\ \E b \in 1..Len(BrandDetails') :
                           /\ BrandDetails'[b].BrandName = r.BrandName
                           /\ BrandDetails'[b].BrandID = TikiProductsHistory'[j].BrandID
C8_OnlyGenuinelyNewRowsSubmitted == [][ReconciledWithStoredHistory]_vars

-----------------------------------------------------------------------------
(* run_pipeline (main.py) and TikiScraper.scrape (scraper.py) *)

PAGES_TO_SCRAPE == 3

\* TikiScraper.__init__(self, driver_path) called with the arguments args
TikiScraper_init(args, path_exists) ==
    IF Len(args) # 1 THEN "TypeError"          \* driver_path is required
    ELSE IF ~path_exists THEN "FileNotFoundError"
    ELSE "ok"
\* main.py:17 calls TikiScraper() with no argument; the call the signature
\* provides for passes cf.DRIVER_PATH
ConstructorArgs == {<<>>, <<"DRIVER_PATH">>}

\* the finally of lines 178-179 runs whether the try block raised or not
QuitOnlyAfterSuccess(raised) == ~raised
QuitOnExit(raised) == TRUE

\* The entries of a listing page: one that parses, one whose parsing raises
\* (caught at line 176)
ListingEntries == {[parses |-> TRUE, Name |-> "tv", Price |-> 1],
                   [parses |-> FALSE, Name |-> "tv", Price |-> 1]}

\* Responses of requests.get: <<"ok", decoded body>> or a failure
Failures == {<<"transport_error">>, <<"http_error">>}
PageResponses ==
    Failures \cup {<<"no_script_tag">>, <<"malformed_json">>}
    \cup {<<"ok", p>> : p \in
           {Dict(<<(<<"props", b>>)>>) : b \in
              {DictOf(<<(<<"productId", Scalar("7")>>), (<<"spid", s>>),
                        (<<"sellerId", r>>), (<<"quantity_sold", q>>)>>)
               : s \in {Scalar("7"), Absent}, r \in {Scalar("7"), Scalar("9")},
                 q \in {Absent, None, Dict(<<(<<"value", Scalar("5")>>)>>)}}}}
Seller(name, url) ==
    Dict(<<(<<"data", Dict(<<(<<"seller",
            Dict(<<(<<"name", Scalar(name)>>), (<<"url", Scalar(url)>>)>>)>>)>>)>>)>>)
ApiResponses ==
    Failures \cup {<<"invalid_json">>}
    \cup {<<"ok", b>> : b \in
           {Seller("Acme", "u1"), Seller("Acme", "u2"), Seller("Bolt", "u1"),
            Dict(<<(<<"data", Dict(<<(<<"seller", Dict(<<>>)>>)>>)>>)>>),
            Dict(<<(<<"data", Dict(<<(<<"seller",
                Dict(<<(<<"name", Scalar("Acme")>>),
                       (<<"info", List(<<Dict(<<(<<"type", Scalar("review")>>),
                                                (<<"title", Scalar("n/a")>>)>>)>>)>>)>>)>>)>>)>>)>>),
            Dict(<<>>),
            Dict(<<(<<"error", Scalar("not found")>>)>>),
            Dict(<<(<<"data", None>>)>>),
            List(<<Scalar("7")>>)}}

\* _get_data_and_ids_from_next_data(link), given what the request returns
fetch_data_and_ids(response) ==
    IF response[1] # "ok" THEN NoData       \* lines 65-72, 98-103
    ELSE get_data_and_ids_from_next_data(response[2])
\* _get_brand_details_via_api(ids), given what the request returns
get_brand_details_via_api(ids, response) ==
    IF ~(Truthy(ids.seller_id) /\ Truthy(ids.product_id) /\ Truthy(ids.spid)) THEN None
    ELSE IF response[1] # "ok" THEN None    \* lines 117-119
    ELSE response[2]                        \* response.json()

\* brand_json['data']['seller'] can be evaluated and is a dict
HasSellerData(json) ==
    /\ IsDict(json) /\ HasKey(json, "data")
    /\ IsDict(DictItem(json, "data"))
    /\ HasKey(DictItem(json, "data"), "seller")
    /\ IsDict(DictItem(DictItem(json, "data"), "seller"))
\* line 201 raises (KeyError, TypeError or AttributeError)
Line201Raises(json) == Truthy(json) /\ ~HasSellerData(json)
\* the text of a string scalar
Text(n) == n[2]
NumericTexts == {"0", "4.5", "5"}
\* lines 212-217: float(title) of the first review entry raises ValueError
ReviewRaises(seller_data) ==
    LET info == DictGet(seller_data, "info", List(<<>>))[2]
        reviews == SelectSeq(info, LAMBDA e : DictGet(e, "type", None) = Scalar("review"))
    IN  /\ reviews # <<>>
        /\ Text(DictGet(reviews[1], "title", Scalar("0"))) \notin NumericTexts
\* lines 219-227
BrandRecordOf(seller_data) ==
    [BrandName |-> Text(DictGet(seller_data, "name", Scalar("N/A"))),
     BrandLink |-> Text(DictGet(seller_data, "url", Scalar("N/A")))]
\* seller_id in final_brands_details
InBrands(details, id) == \E k \in 1..Len(details) : details[k][1] = id
\* final_brands_details[seller_id] for a key the dict has
BrandOf(details, id) == details[CHOOSE k \in 1..Len(details) : details[k][1] = id][2]

\* an accumulator that assigns final_brands_details[seller_id] for every product
store_brand_every_time(details, id, record) ==
    IF InBrands(details, id)
    THEN [k \in 1..Len(details) |->
            IF details[k][1] = id THEN <<id, record>> ELSE details[k]]
    ELSE Append(details, <<id, record>>)
\* lines 207 and 219: the record is stored only under a key the dict lacks
store_brand(details, id, record) ==
    IF InBrands(details, id) THEN details ELSE Append(details, <<id, record>>)

InitPipeline ==
    /\ mode = "pipeline"
    /\ data_blob = None
    /\ target_key = "sellerId"
    /\ found = Pending
    /\ extracted = Pending
    /\ DbIdle
    /\ NoRun

\* the calendar date changes while the run is on
Midnight ==
    /\ mode = "pipeline"
    /\ pc \in {"start", "listing", "enrich"}
    /\ clock = "d1"
    /\ clock' = "d2"
    /\ UNCHANGED <<mode, treeVars, dbVars, upsertVars, pc, failed_phase, today, driver,
                   quit_count, requests_made, page_num, product_items,
                   scraped_data_from_list_page, all_product_links, link_index,
                   seller_id, brand_json, final_products_history,
                   final_brands_details>>

\* main.py:17 and TikiScraper.__init__
RunPipeline_Construct ==
    /\ mode = "pipeline"
    /\ pc = "start"
    /\ \E args \in ConstructorArgs, path_exists \in BOOLEAN :
          IF TikiScraper_init(args, path_exists) = "ok"
          THEN /\ driver' = "open"
               /\ today' = clock
               /\ pc' = "listing"
               /\ failed_phase' = failed_phase
          ELSE /\ pc' = "uncaught"       \* no handler in run_pipeline
               /\ failed_phase' = "construct"
               /\ UNCHANGED <<driver, today>>
    /\ UNCHANGED <<mode, treeVars, dbVars, upsertVars, clock, quit_count, requests_made,
                   page_num, product_items, scraped_data_from_list_page,
                   all_product_links, link_index, seller_id, brand_json,
                   final_products_history, final_brands_details>>

\* lines 144-150: the next listing page is loaded, or loading raises (the wait
\* of line 44 times out): then the finally of line 178 runs and the exception
\* leaves scrape and run_pipeline
GetPageSource ==
    /\ mode = "pipeline"
    /\ pc = "listing"
    /\ product_items = <<>>
    /\ page_num <= PAGES_TO_SCRAPE
    /\ \/ /\ \E items \in SeqsUpTo(ListingEntries,
                                     MaxProducts - Len(scraped_data_from_list_page)) :
                 product_items' = items
          /\ page_num' = page_num + 1
          /\ UNCHANGED <<pc, failed_phase, driver, quit_count>>
       \/ /\ driver' = (IF QuitOnExit(TRUE) THEN "quit" ELSE driver)
          /\ quit_count' = quit_count + (IF QuitOnExit(TRUE) THEN 1 ELSE 0)
          /\ pc' = "uncaught"
          /\ failed_phase' = "listing"
          /\ UNCHANGED <<page_num, product_items>>
    /\ UNCHANGED <<mode, treeVars, dbVars, upsertVars, clock, today, requests_made,
                   scraped_data_from_list_page, all_product_links, link_index,
                   seller_id, brand_json, final_products_history,
                   final_brands_details>>

\* lines 152-177: one entry of the page; an entry that fails to parse is skipped
ParseItem ==
    /\ mode = "pipeline"
    /\ pc = "listing"
    /\ product_items # <<>>
    /\ product_items' = Tail(product_items)
    /\ IF Head(product_items).parses
       THEN /\ scraped_data_from_list_page' =
                 Append(scraped_data_from_list_page,
                        [Name |-> Head(product_items).Name,
                         Price |-> Head(product_items).Price,
                         Link |-> Len(all_product_links) + 1,
                         ScrapedDate |-> clock])
            /\ all_product_links' = Append(all_product_links, Len(all_product_links) + 1)
       ELSE UNCHANGED <<scraped_data_from_list_page, all_product_links>>
    /\ UNCHANGED <<mode, treeVars, dbVars, upsertVars, pc, failed_phase, clock, today,
                   driver, quit_count, requests_made, page_num, link_index,
                   seller_id, brand_json, final_products_history,
                   final_brands_details>>

\* lines 178-186: the last page is done, the finally closes the browser
EndListing ==
    /\ mode = "pipeline"
    /\ pc = "listing"
    /\ product_items = <<>>
    /\ page_num > PAGES_TO_SCRAPE
    /\ driver' = (IF QuitOnExit(FALSE) THEN "quit" ELSE driver)
    /\ quit_count' = quit_count + (IF QuitOnExit(FALSE) THEN 1 ELSE 0)
    /\ pc' = "enrich"
    /\ UNCHANGED <<mode, treeVars, dbVars, upsertVars, failed_phase, clock, today,
                   requests_made, page_num, product_items,
                   scraped_data_from_list_page, all_product_links, link_index,
                   seller_id, brand_json, final_products_history,
                   final_brands_details>>

\* lines 187-227: one iteration of the enrichment loop
EnrichProduct ==
    /\ mode = "pipeline"
    /\ pc = "enrich"
    /\ link_index <= Len(all_product_links)
    /\ \E page \in PageResponses, api \in ApiResponses :
          LET data_ids == fetch_data_and_ids(page)
              ids == data_ids[2]
              json == get_brand_details_via_api(ids, api)
              seller_data == DictItem(DictItem(json, "data"), "seller")
              record == [Name |-> scraped_data_from_list_page[link_index].Name,
                         Price |-> scraped_data_from_list_page[link_index].Price,
                         Link |-> scraped_data_from_list_page[link_index].Link,
                         ScrapedDate |-> scraped_data_from_list_page[link_index].ScrapedDate,
                         BrandName |-> IF Truthy(json)
                                       THEN BrandRecordOf(seller_data).BrandName
                                       ELSE "N/A",
                         SoldCount |-> ids.quantity_sold]
          IN  IF data_ids = NoData
              THEN \* line 193: the product is skipped
                   /\ requests_made' = requests_made + 1
                   /\ link_index' = link_index + 1
                   /\ UNCHANGED <<pc, failed_phase, seller_id, brand_json,
                                  final_products_history, final_brands_details>>
              ELSE IF Line201Raises(json)
                      \/ (Truthy(json) /\ ~InBrands(final_brands_details, ids.seller_id)
                          /\ ReviewRaises(seller_data))
              THEN \* nothing in scrape or run_pipeline catches it
                   /\ requests_made' = requests_made + 2
                   /\ seller_id' = ids.seller_id
                   /\ brand_json' = json
                   /\ pc' = "uncaught"
                   /\ failed_phase' = "enrichment"
                   /\ final_products_history' =
                        (IF Line201Raises(json) THEN final_products_history
                         ELSE Append(final_products_history, record))
                   /\ UNCHANGED <<link_index, final_brands_details>>
              ELSE /\ requests_made' = requests_made + 2
                   /\ seller_id' = ids.seller_id
                   /\ brand_json' = json
                   /\ link_index' = link_index + 1
                   /\ final_products_history' = Append(final_products_history, record)
                   /\ final_brands_details' =
                        (IF Truthy(json)
                         THEN store_brand(final_brands_details, ids.seller_id,
                                          BrandRecordOf(seller_data))
                         ELSE final_brands_details)
                   /\ UNCHANGED <<pc, failed_phase>>
    /\ UNCHANGED <<mode, treeVars, dbVars, upsertVars, clock, today, driver, quit_count,
                   page_num, product_items, scraped_data_from_list_page,
                   all_product_links>>

\* lines 229-233: the two frames are built and returned to run_pipeline
ScrapeReturn ==
    /\ mode = "pipeline"
    /\ pc = "enrich"
    /\ link_index > Len(all_product_links)
    /\ brands_df' = [k \in 1..Len(final_brands_details) |-> final_brands_details[k][2]]
    /\ history_df' = final_products_history
    /\ pc' = "scraped"
    /\ UNCHANGED <<mode, treeVars, dbVars, existing_brands_df, new_brands_to_insert,
                   final_fact_data_to_insert, upsert_outcome, failed_phase, clock, today,
                   driver, quit_count, requests_made, page_num, product_items,
                   scraped_data_from_list_page, all_product_links, link_index,
                   seller_id, brand_json, final_products_history,
                   final_brands_details>>

\* main.py:27-46: the persist phase, then run_pipeline returns
RunPipeline_Persist ==
    /\ mode = "pipeline"
    /\ pc = "scraped"
    /\ IF history_df = <<>>
       THEN UNCHANGED <<dbVars, existing_brands_df, new_brands_to_insert,
                        final_fact_data_to_insert, upsert_outcome>>       \* line 44
       ELSE \E connect_ok \in BOOLEAN :
              LET r == upsert_data(BrandDetails, TikiProductsHistory, brands_df,
                                   history_df, connect_ok)
              IN  /\ BrandDetails' = r.BrandDetails
                  /\ TikiProductsHistory' = r.TikiProductsHistory
                  /\ existing_brands_df' = r.existing_brands_df
                  /\ new_brands_to_insert' = r.new_brands_to_insert
                  /\ final_fact_data_to_insert' = r.final_fact_data_to_insert
                  /\ upsert_outcome' = r.outcome
    /\ pc' = "done"    \* an exception of upsert_data is caught at main.py:40
    /\ UNCHANGED <<mode, treeVars, brands_df, history_df, failed_phase, clock, today,
                   driver, quit_count, requests_made, page_num, product_items,
                   scraped_data_from_list_page, all_product_links, link_index,
                   seller_id, brand_json, final_products_history,
                   final_brands_details>>

Next ==
    \/ Midnight
    \/ RunPipeline_Construct
    \/ GetPageSource
    \/ ParseItem
    \/ EndListing
    \/ EnrichProduct
    \/ ScrapeReturn
    \/ RunPipeline_Persist
Spec == InitPipeline /\ [][Next]_vars

-----------------------------------------------------------------------------
(* Claims about scrape and run_pipeline *)

\* C5: in the enrichment loop a failure of a single fetch step for one product
\* (page transport error, non-2xx status, missing or malformed payload, failed
\* or unusable seller-detail response) never aborts the run: the loop goes on
\* to the remaining links and scrape returns both tables.
C5_EnrichmentFailureNeverAborts ==
    ~(pc = "uncaught" /\ failed_phase = "enrichment")

\* C9: an unexpected error raised in a phase of the pipeline is caught at top
\* level: run_pipeline returns normally, the process does not end with an
\* uncaught exception.
C9_RunPipelineReturnsNormally == pc # "uncaught"

\* C10: in every execution of scrape driver.quit is called exactly once, when
\* the listing phase ends, normally or with an error, and no enrichment
\* request is made before it.
C10_DriverQuitOnceBeforeEnrichment ==
    /\ quit_count <= 1
    /\ pc = "listing" => (quit_count = 0 /\ driver = "open")
    /\ (pc \in {"enrich", "scraped", "done"}
        \/ (pc = "uncaught" /\ failed_phase \in {"listing", "enrichment"}))
           => (quit_count = 1 /\ driver = "quit")
    /\ requests_made > 0 => quit_count = 1

\* the listing phase ended with an error on a later page, after an entry had
\* been collected: the browser was released once and no request was made
C10_Witness ==
    /\ pc = "uncaught" /\ failed_phase = "listing"
    /\ Len(all_product_links) > 0
    /\ quit_count = 1 /\ driver = "quit"
    /\ requests_made = 0

\* the seller data of a seller-detail response that has it
SellerDataOf(json) == DictItem(DictItem(json, "data"), "seller")
\* the keys of the accumulator are pairwise different
OneRecordPerSeller ==
    \A k, l \in 1..Len(final_brands_details) :
        final_brands_details[k][1] = final_brands_details[l][1] => k = l
\* the brand table scrape returns holds the records of the accumulator
BrandOutputIsAccumulator ==
    pc \in {"scraped", "done"} =>
        brands_df = [k \in 1..Len(final_brands_details) |-> final_brands_details[k][2]]
\* this step ends an iteration of the enrichment loop that kept its product
ProductKept ==
    /\ link_index' = link_index + 1
    /\ final_products_history' # final_products_history

\* C11 as stated: the accumulator is last-write-wins. When scrape has
\* returned, the record kept for the seller identifier of the last product
\* that came with seller data is the record built from that product, and
\* the brand output holds one record per seller identifier.
C11_Original_LastWriteWins ==
    (pc \in {"scraped", "done"} /\ brand_json # Pending /\ HasSellerData(brand_json)) =>
        /\ InBrands(final_brands_details, seller_id)
        /\ BrandOf(final_brands_details, seller_id) =
              BrandRecordOf(SellerDataOf(brand_json))
        /\ OneRecordPerSeller
        /\ BrandOutputIsAccumulator

\* a record the accumulator holds is never replaced or removed; a record is
\* added exactly when a kept product comes with seller data for a seller
\* identifier the accumulator does not hold yet, and it is built from that
\* product
FirstWriteStep ==
    /\ Len(final_brands_details') >= Len(final_brands_details)
    /\ \A k \in 1..Len(final_brands_details) :
          final_brands_details'[k] = final_brands_details[k]
    /\ IF ProductKept /\ HasSellerData(brand_json')
          /\ ~InBrands(final_brands_details, seller_id')
       THEN final_brands_details' =
              Append(final_brands_details,
                     <<seller_id', BrandRecordOf(SellerDataOf(brand_json'))>>)
       ELSE final_brands_details' = final_brands_details

\* C11 amended: the accumulator is first-write-wins. The record kept for a
\* seller identifier is the one built from the first product of the run that
\* came with seller data for it, later products of the same seller never
\* replace it, and the brand output holds exactly one record per seller
\* identifier for which seller data was obtained.
C11_FirstWriteWins ==
    /\ [](OneRecordPerSeller /\ BrandOutputIsAccumulator)
    /\ [][FirstWriteStep]_vars

\* scrape returned after two products of one seller whose seller data
\* differ: the record kept is not the one of the last product
C11_Witness ==
    /\ pc = "scraped"
    /\ Len(final_products_history) = 2
    /\ Len(final_brands_details) = 1
    /\ HasSellerData(brand_json)
    /\ final_brands_details[1][1] = seller_id
    /\ final_brands_details[1][2] # BrandRecordOf(SellerDataOf(brand_json))
    /\ brands_df = <<final_brands_details[1][2]>>

\* C12: all product records one run of scrape produces carry the same
\* ScrapedDate, whatever the calendar date is when each entry is parsed.
C12_OneScrapedDatePerRun ==
    \A i, j \in 1..Len(scraped_data_from_list_page) :
        scraped_data_from_list_page[i].ScrapedDate =
            scraped_data_from_list_page[j].ScrapedDate

====
